---- MODULE Spec2Model ----
(***************************************************************************)
(* Model of the two first-party modules of the intrusion detector:         *)
(*   src/src/dam_analyzer.py  (DAMAnalyzer)                                *)
(*   src/src/log_manager.py   (LogManager)                                 *)
(*                                                                         *)
(* Text is modelled as a sequence of tokens.  A token is an indivisible    *)
(* piece of text: one character (" ", "\t", "\n", "#", "a", "b") or a      *)
(* fixed word ("Description:", "UserWarning", a formatted date, ...).  No   *)
(* concatenation of the tokens used here forms another token or one of     *)
(* the searched patterns, so startswith / split / re.search on the text    *)
(* are decided token by token.                                             *)
(***************************************************************************)
EXTENDS Integers, Sequences, FiniteSets, TLC

(***************************************************************************)
(* Bounds of the model.                                                    *)
(***************************************************************************)
MaxRaw == 4
MaxStream == 2
MaxAppends == 2
MaxCount == 2

(***************************************************************************)
(* Python str helpers.                                                     *)
(***************************************************************************)
Whitespace == {" ", "\t", "\n"}

LineBreak == "\n"

RECURSIVE LStrip(_)
LStrip(s) ==
    IF s # <<>> /\ Head(s) \in Whitespace THEN LStrip(Tail(s)) ELSE s

RECURSIVE RStrip(_)
RStrip(s) ==
    IF s # <<>> /\ s[Len(s)] \in Whitespace
    THEN RStrip(SubSeq(s, 1, Len(s) - 1))
    ELSE s

\* str.strip()
Strip(s) == RStrip(LStrip(s))

\* index of the first occurrence of token t in s, 0 when there is none
RECURSIVE IndexFrom(_, _, _)
IndexFrom(s, t, i) ==
    IF i > Len(s) THEN 0
    ELSE IF s[i] = t THEN i
    ELSE IndexFrom(s, t, i + 1)

IndexOf(s, t) == IndexFrom(s, t, 1)

\* str.splitlines(): the lines without their line break; a final line break
\* opens no empty last line
RECURSIVE SplitLines(_)
SplitLines(s) ==
    IF s = <<>> THEN <<>>
    ELSE LET i == IndexOf(s, LineBreak)
         IN  IF i = 0 THEN <<s>>
             ELSE <<SubSeq(s, 1, i - 1)>> \o SplitLines(SubSeq(s, i + 1, Len(s)))

\* file.readlines(): the lines with their line break kept
RECURSIVE ReadLines(_)
ReadLines(s) ==
    IF s = <<>> THEN <<>>
    ELSE LET i == IndexOf(s, LineBreak)
         IN  IF i = 0 THEN <<s>>
             ELSE <<SubSeq(s, 1, i)>> \o ReadLines(SubSeq(s, i + 1, Len(s)))

\* str.startswith(t) for a token t
StartsWith(s, t) == s # <<>> /\ Head(s) = t

\* s.split(t, 1)[1]: the text after the first occurrence of t
AfterFirst(s, t) == SubSeq(s, IndexOf(s, t) + 1, Len(s))

\* all token sequences over alphabet A of length at most n
StringsUpTo(A, n) == UNION {[1..k -> A] : k \in 0..n}

(***************************************************************************)
(* DAMAnalyzer._extract_description                                        *)
(***************************************************************************)
Marker == "Description:"

NoisePatterns ==
    {"frame loading", "propagate in video", "Loading checkpoint", "UserWarning"}

\* re.search(r"frame loading|propagate in video|Loading checkpoint|UserWarning", l)
MatchesNoise(l) == \E i \in 1..Len(l) : l[i] \in NoisePatterns

\* the for loop of lines 35-37: desc after the lines have been scanned
RECURSIVE ScanDescription(_, _)
ScanDescription(lines, desc) ==
    IF lines = <<>> THEN desc
    ELSE IF StartsWith(Head(lines), Marker)
         THEN ScanDescription(Tail(lines), Strip(AfterFirst(Head(lines), Marker)))
         ELSE ScanDescription(Tail(lines), desc)

\* mutant: the noise patterns are not filtered out
IsNonBlankLine(l) == Strip(l) # <<>>

IsCleanLine(l) == Strip(l) # <<>> /\ ~MatchesNoise(l)

\* [l for l in lines if l.strip() and not re.search(..., l)]
RECURSIVE SelectClean(_)
SelectClean(lines) ==
    IF lines = <<>> THEN <<>>
    ELSE IF IsCleanLine(Head(lines))
         THEN <<Head(lines)>> \o SelectClean(Tail(lines))
         ELSE SelectClean(Tail(lines))

CleanLines(raw_output) == SelectClean(SplitLines(raw_output))

_extract_description(raw_output) ==
    LET desc == ScanDescription(SplitLines(raw_output), <<>>)
        clean_lines == CleanLines(raw_output)
    IN  IF desc # <<>> THEN desc
        ELSE IF clean_lines # <<>> THEN Strip(clean_lines[Len(clean_lines)])
        ELSE Strip(raw_output)

(***************************************************************************)
(* State.                                                                  *)
(*   call, result         the DAMAnalyzer call last made and what it gave   *)
(*   parent, exists, file the file system at the log path: the state of    *)
(*                        the parent directory, whether the log file       *)
(*                        exists, and its content                          *)
(*   lm                   whether a LogManager object has been constructed *)
(*   last                 the LogManager call last made and what it gave   *)
(*   fresh, appended      whether the log was created header-only by the   *)
(*                        manager, and the appendLog calls that returned   *)
(*                        True since then                                  *)
(***************************************************************************)
VARIABLES call, result, parent, exists, file, lm, last, fresh, appended

analyzerVars == <<call, result>>
logVars == <<parent, exists, file, lm, last, fresh, appended>>
vars == <<call, result, parent, exists, file, lm, last, fresh, appended>>

(***************************************************************************)
(* DAMAnalyzer.analyze_with_bbox / analyze_with_sam2 / analyze_video       *)
(***************************************************************************)
\* the text the external process may print on a stream
Alphabet == {Marker, "a", " ", "\n", "UserWarning"}

\* the text _extract_description is applied to: every noise pattern occurs
RawAlphabet == Alphabet \cup NoisePatterns

RawOutputs == StringsUpTo(RawAlphabet, MaxRaw)

Streams == StringsUpTo(Alphabet, MaxStream)

ReturnCodes == {0, 1}

\* what subprocess.run can do: fail to launch the process (OSError), or run
\* it to completion and capture its exit code and both streams as text
ProcessOutcomes ==
    {[launched |-> FALSE, returncode |-> 0, stdout |-> <<>>, stderr |-> <<>>]}
    \cup [launched : {TRUE}, returncode : ReturnCodes,
          stdout : Streams, stderr : Streams]

None == [kind |-> "None", val |-> <<>>]
Return(v) == [kind |-> "return", val |-> v]
Raise == [kind |-> "raise", val |-> <<>>]

\* result.stdout or result.stderr
StdoutOrStderr(p) == IF p.stdout # <<>> THEN p.stdout ELSE p.stderr

\* lines 66-75 and 98-107: the body of the try block
RunAndExtract(p) ==
    IF ~p.launched THEN Raise
    ELSE IF p.returncode # 0 THEN Raise
    ELSE Return(_extract_description(StdoutOrStderr(p)))

\* mutant: the except clause re-raises
ExceptReraise(r) == r

\* try: ... except Exception as e: print(...); return None
ExceptReturnNone(r) == IF r.kind = "raise" THEN None ELSE r

analyze_with_bbox(p) == ExceptReturnNone(RunAndExtract(p))

analyze_with_sam2(p) == ExceptReturnNone(RunAndExtract(p))

analyze_video(p, use_sam2) ==
    IF use_sam2 THEN analyze_with_sam2(p) ELSE analyze_with_bbox(p)

NoProcess == [launched |-> FALSE, returncode |-> 0, stdout |-> <<>>, stderr |-> <<>>]

InitAnalyzerVars ==
    /\ call = [op |-> "none", raw |-> <<>>, proc |-> NoProcess]
    /\ result = None

ExtractDescription ==
    /\ call.op = "none"
    /\ \E raw_output \in RawOutputs :
        /\ call' = [op |-> "_extract_description", raw |-> raw_output,
                    proc |-> NoProcess]
        /\ result' = Return(_extract_description(raw_output))
        /\ UNCHANGED logVars

AnalyzeVideoBbox ==
    /\ call.op = "none"
    /\ \E p \in ProcessOutcomes :
        /\ call' = [op |-> "analyze_with_bbox", raw |-> <<>>, proc |-> p]
        /\ result' = analyze_video(p, FALSE)
        /\ UNCHANGED logVars

AnalyzeVideoSam2 ==
    /\ call.op = "none"
    /\ \E p \in ProcessOutcomes :
        /\ call' = [op |-> "analyze_with_sam2", raw |-> <<>>, proc |-> p]
        /\ result' = analyze_video(p, TRUE)
        /\ UNCHANGED logVars

NextAnalyzer == ExtractDescription \/ AnalyzeVideoBbox \/ AnalyzeVideoSam2

(***************************************************************************)
(* datetime: a day of January 2024 and the seconds since midnight.         *)
(***************************************************************************)
SecondsPerDay == 86400

Digit(n) ==
    CASE n = 0 -> "0" [] n = 1 -> "1" [] n = 2 -> "2" [] n = 3 -> "3"
      [] n = 4 -> "4" [] n = 5 -> "5" [] n = 6 -> "6" [] n = 7 -> "7"
      [] n = 8 -> "8" [] n = 9 -> "9"

TwoDigits(n) == <<Digit((n \div 10) % 10), Digit(n % 10)>>

\* strftime('%H%M%S')
FormatClock(t) ==
    TwoDigits(t.sec \div 3600) \o TwoDigits((t.sec \div 60) % 60)
        \o TwoDigits(t.sec % 60)

\* strftime('%Y-%m-%d-%H%M%S')
FormatDateClock(t) == <<"2024-01-">> \o TwoDigits(t.day) \o <<"-">> \o FormatClock(t)

\* datetime.isoformat()
IsoFormat(t) ==
    <<"2024-01-">> \o TwoDigits(t.day) \o <<"T">>
        \o TwoDigits(t.sec \div 3600) \o <<":">>
        \o TwoDigits((t.sec \div 60) % 60) \o <<":">> \o TwoDigits(t.sec % 60)

\* start_dt + timedelta(seconds=n)
PlusSeconds(t, n) ==
    [day |-> t.day + ((t.sec + n) \div SecondsPerDay),
     sec |-> (t.sec + n) % SecondsPerDay]

\* line 41: f"{start_dt.strftime('%Y-%m-%d-%H%M%S')}~{end_dt.strftime('%H%M%S')}"
FormatTimeRange(start_dt, end_dt) ==
    FormatDateClock(start_dt) \o <<"~">> \o FormatClock(end_dt)

\* the value datetime.now() and the callers' datetimes are drawn from:
\* 2024-01-02 03:04:05
Instants == {[day |-> 2, sec |-> 11045]}

Durations == {5}

(***************************************************************************)
(* bbox_info: the optional metadata dictionary of append_log.              *)
(***************************************************************************)
NoBboxInfo == "None"
EmptyDict == "{}"
BboxDict == "{\"bbox_normalized\": [0.1, 0.2, 0.5, 0.6]}"
UnserializableDict == "{\"bbox_normalized\": <object>}"

BboxInfos == {NoBboxInfo, EmptyDict, BboxDict, UnserializableDict}

\* the truth value of bbox_info in "if bbox_info:"
Truthy(bbox_info) == bbox_info \notin {NoBboxInfo, EmptyDict}

\* json.dumps(bbox_info, ensure_ascii=False): a single-line text, or TypeError
JsonSerializable(bbox_info) == bbox_info # UnserializableDict

JsonDumps(bbox_info) == <<bbox_info>>

(***************************************************************************)
(* The log file.                                                           *)
(***************************************************************************)
Tab == "\t"
Comment == "#"

\* lines 29-32: the four writes of _create_log_file
Header(now) ==
    <<Comment, " Action Log File", "\n",
      Comment, " Format: TIME_RANGE\\tDESCRIPTION\\tBBOX_INFO", "\n",
      Comment, " Created: ">> \o IsoFormat(now) \o <<"\n", "\n">>

\* the outcomes of opening a file for writing and writing to it: success,
\* open() raises (the file is left as it is), or open() succeeds and the
\* write (flushed when the file is closed) raises
WriteOutcomes == {"ok", "open_fail", "write_fail"}

ReadOutcomes == {"ok", "read_fail"}

\* lines 25-35: _create_log_file; every exception is caught inside
CreateLogFile(fs, now, io) ==
    CASE io = "ok" -> [exists |-> TRUE, file |-> Header(now)]
      [] io = "open_fail" -> fs
      [] io = "write_fail" -> [exists |-> TRUE, file |-> <<>>]

\* lines 54 and 56: the line written
LogLine(time_range, description, bbox_info) ==
    IF Truthy(bbox_info)
    THEN time_range \o <<Tab>> \o description \o <<Tab>>
             \o JsonDumps(bbox_info) \o <<"\n">>
    ELSE time_range \o <<Tab>> \o description \o <<"\n">>

\* mutant: the file is opened with "w", which truncates it
AppendTruncating(content, line) == line

\* open("a") then write: the content after a successful write
AppendContent(content, line) == content \o line

\* lines 37-63: append_log; ret is the boolean returned
append_log(fs, start_dt, end_dt, description, bbox_info, io) ==
    LET time_range == FormatTimeRange(start_dt, end_dt)
        opened == [exists |-> TRUE, file |-> fs.file]
    IN  IF io = "open_fail" THEN [ret |-> FALSE, fs |-> fs]
        ELSE IF Truthy(bbox_info) /\ ~JsonSerializable(bbox_info)
             THEN [ret |-> FALSE, fs |-> opened]
        ELSE IF io = "write_fail" THEN [ret |-> FALSE, fs |-> opened]
        ELSE [ret |-> TRUE,
              fs |-> [exists |-> TRUE,
                      file |-> AppendContent(fs.file,
                                   LogLine(time_range, description, bbox_info))]]

\* lines 108 and 130: line.strip() and not line.startswith('#')
IsLogLine(line) == Strip(line) # <<>> /\ ~StartsWith(line, Comment)

\* line 108: [line.strip() for line in lines if ...]
RECURSIVE StrippedLogLines(_)
StrippedLogLines(lines) ==
    IF lines = <<>> THEN <<>>
    ELSE IF IsLogLine(Head(lines))
         THEN <<Strip(Head(lines))>> \o StrippedLogLines(Tail(lines))
         ELSE StrippedLogLines(Tail(lines))

\* seq[-count:]
LastSlice(seq, count) ==
    LET n == Len(seq)
        from == IF count > 0 THEN (IF count > n THEN 0 ELSE n - count)
                ELSE IF -count > n THEN n ELSE -count
    IN  SubSeq(seq, from + 1, n)

\* lines 98-115: read_recent_logs
read_recent_logs(fs, count, io) ==
    IF ~fs.exists THEN <<>>
    ELSE IF io = "read_fail" THEN <<>>
    ELSE LET log_lines == StrippedLogLines(ReadLines(fs.file))
         IN  IF log_lines # <<>> THEN LastSlice(log_lines, count) ELSE <<>>

\* line 130: len([line for line in lines if ...])
CountLogLines(content) == Len(StrippedLogLines(ReadLines(content)))

\* lines 117-141: get_log_stats; kind tells which of the three dictionaries
get_log_stats(fs, io) ==
    IF ~fs.exists THEN [kind |-> "absent", total_entries |-> 0, file_size |-> 0]
    ELSE IF io = "read_fail" THEN [kind |-> "error", total_entries |-> -1, file_size |-> -1]
    ELSE [kind |-> "stats", total_entries |-> CountLogLines(fs.file),
          file_size |-> Len(fs.file)]

\* lines 143-151: clear_logs; ret is the boolean returned
clear_logs(fs, now, io) == [ret |-> TRUE, fs |-> CreateLogFile(fs, now, io)]

\* the log file path and Path.with_suffix: the last suffix is replaced
LogPath == <<"logs/", "action_log", ".txt">>

WithSuffix(path, suffix) == SubSeq(path, 1, Len(path) - 1) \o suffix

\* backup_suffix: None, a plain suffix, or one holding a path separator
\* (with_suffix raises ValueError)
BackupSuffixes == {"None", "bak", "a/b"}

CopyOutcomes == {"ok", "copy_fail"}

\* line 162: datetime.now().strftime("%Y%m%d_%H%M%S")
FormatBackupSuffix(now) == <<"202401">> \o TwoDigits(now.day) \o <<"_">> \o FormatClock(now)

\* lines 153-175: backup_logs; the log file itself is only read
backup_logs(fs, backup_suffix, now, io) ==
    LET suffix == IF backup_suffix = "None" THEN FormatBackupSuffix(now)
                  ELSE <<backup_suffix>>
        backup_path == WithSuffix(LogPath, <<".">> \o suffix \o <<".txt">>)
    IN  IF ~fs.exists THEN [kind |-> "None", path |-> <<>>, data |-> <<>>, fs |-> fs]
        ELSE IF backup_suffix = "a/b"
             THEN [kind |-> "None", path |-> <<>>, data |-> <<>>, fs |-> fs]
        ELSE IF io = "copy_fail"
             THEN [kind |-> "None", path |-> <<>>, data |-> <<>>, fs |-> fs]
        ELSE [kind |-> "path", path |-> backup_path, data |-> fs.file, fs |-> fs]

\* the parent directory of the log path: a directory, missing with its own
\* parent present, missing together with an ancestor, or not a directory
ParentStates == {"dir", "missing", "orphan", "notdir"}

MkdirOutcomes == {"ok", "denied"}

\* line 19: self.log_file_path.parent.mkdir(exist_ok=True)
Mkdir(dir, mk) ==
    CASE dir = "dir" -> [raised |-> FALSE, parent |-> dir]
      [] dir = "orphan" -> [raised |-> TRUE, parent |-> dir]
      [] dir = "notdir" -> [raised |-> TRUE, parent |-> dir]
      [] dir = "missing" ->
            IF mk = "ok" THEN [raised |-> FALSE, parent |-> "dir"]
            ELSE [raised |-> TRUE, parent |-> dir]

\* lines 15-23: LogManager.__init__; raised tells that the constructor raised
LogManagerInit(dir, fs, mk, now, io) ==
    LET made == Mkdir(dir, mk)
    IN  IF made.raised THEN [raised |-> TRUE, parent |-> made.parent, fs |-> fs]
        ELSE IF ~fs.exists
             THEN [raised |-> FALSE, parent |-> made.parent,
                   fs |-> CreateLogFile(fs, now, io)]
        ELSE [raised |-> FALSE, parent |-> made.parent, fs |-> fs]

\* lines 72-77 and 89-94: the dictionaries the two wrappers build
AnalysisDict == "{\"bbox_normalized\": [0.1, 0.2, 0.5, 0.6], \"analysis_mode\": \"bbox_based\", \"video_path\": \"clip.mp4\", \"duration_sec\": 5}"
TriggerDict == "{\"signal_type\": \"motion\", \"bbox_normalized\": [0.1, 0.2, 0.5, 0.6], \"metadata\": {}, \"source\": \"api_trigger\"}"

\* lines 65-79: log_analysis_result
log_analysis_result(fs, now, description, duration_sec, io) ==
    append_log(fs, now, PlusSeconds(now, duration_sec), description, AnalysisDict, io)

\* line 87: description or f"API trigger: {signal_type}"
TriggerDescription(description) ==
    IF description # <<>> THEN description ELSE <<"API trigger: ", "motion">>

\* lines 81-96: log_api_trigger
log_api_trigger(fs, now, description, io) ==
    append_log(fs, now, PlusSeconds(now, 1), TriggerDescription(description),
               TriggerDict, io)

(***************************************************************************)
(* The LogManager as a state machine: one action per public operation.     *)
(***************************************************************************)
Descriptions == {<<"a">>, <<"a", "\n", "b">>}

AnalysisDescriptions == {<<"a">>}

TriggerDescriptions == {<<>>, <<"a">>}

Counts == 0..MaxCount

FirstInstant == [day |-> 2, sec |-> 11045]

\* a log written by an earlier run: the header, one entry, a whitespace
\* line, a comment line and a line whose '#' follows a space
ExistingLog ==
    Header(FirstInstant)
        \o FormatTimeRange(FirstInstant, PlusSeconds(FirstInstant, 5))
        \o <<Tab, "b", "\n", " ", "\n", Comment, "b", "\n", " ", Comment, "a", "\n">>

InitialFiles ==
    {[exists |-> FALSE, file |-> <<>>],
     [exists |-> TRUE, file |-> Header(FirstInstant)],
     [exists |-> TRUE, file |-> ExistingLog]}

NoCall ==
    [op |-> "none", ok |-> FALSE, raised |-> FALSE, io |-> "ok",
     time_range |-> <<>>, description |-> <<>>, bbox_info |-> NoBboxInfo,
     count |-> 0, lines |-> <<>>, total_entries |-> 0, before |-> 0,
     path |-> <<>>, dir |-> "dir", mk |-> "ok"]

fs == [exists |-> exists, file |-> file]

IsHeader(content) == \E now \in Instants : content = Header(now)

InitLogVars ==
    /\ parent \in ParentStates
    /\ \E f \in InitialFiles :
          /\ f.exists => parent = "dir"
          /\ exists = f.exists
          /\ file = f.file
    /\ lm = "none"
    /\ last = NoCall
    /\ fresh = (exists /\ IsHeader(file))
    /\ appended = 0

\* fresh and appended after the log file was (re)created with outcome io
Created(io) ==
    CASE io = "ok" -> /\ fresh' = TRUE
                      /\ appended' = 0
      [] io = "open_fail" -> UNCHANGED <<fresh, appended>>
      [] io = "write_fail" -> /\ fresh' = FALSE
                              /\ appended' = 0

Construct ==
    \E mk \in MkdirOutcomes, now \in Instants, io \in WriteOutcomes :
        LET r == LogManagerInit(parent, fs, mk, now, io)
        IN  /\ parent' = r.parent
            /\ exists' = r.fs.exists
            /\ file' = r.fs.file
            /\ lm' = IF r.raised THEN lm ELSE "ready"
            /\ last' = [NoCall EXCEPT !.op = "__init__", !.ok = ~r.raised,
                                      !.raised = r.raised, !.io = io,
                                      !.dir = parent, !.mk = mk,
                                      !.before = Len(file)]
            /\ IF ~r.raised /\ ~exists THEN Created(io)
               ELSE UNCHANGED <<fresh, appended>>
            /\ UNCHANGED analyzerVars

\* the state after an append_log call, made directly or by a wrapper; last
\* keeps the arguments of a call that returned True
Appended(op, r, time_range, description, bbox_info, io) ==
    /\ exists' = r.fs.exists
    /\ file' = r.fs.file
    /\ last' = IF r.ret
                THEN [NoCall EXCEPT !.op = op, !.ok = TRUE, !.io = io,
                                    !.time_range = time_range,
                                    !.description = description,
                                    !.bbox_info = bbox_info, !.before = Len(file)]
                ELSE [NoCall EXCEPT !.op = op, !.ok = FALSE, !.io = io,
                                    !.before = Len(file)]
    /\ appended' = IF r.ret THEN appended + 1 ELSE appended
    /\ UNCHANGED <<parent, lm, fresh>>
    /\ UNCHANGED analyzerVars

AppendLog ==
    /\ lm = "ready"
    /\ appended < MaxAppends
    /\ \E start_dt \in Instants, d \in Durations, description \in Descriptions,
          bbox_info \in BboxInfos, io \in WriteOutcomes :
          LET end_dt == PlusSeconds(start_dt, d)
          IN  Appended("append_log",
                       append_log(fs, start_dt, end_dt, description, bbox_info, io),
                       FormatTimeRange(start_dt, end_dt), description, bbox_info, io)

LogAnalysisResult ==
    /\ lm = "ready"
    /\ appended < MaxAppends
    /\ \E now \in Instants, d \in Durations, description \in AnalysisDescriptions,
          io \in WriteOutcomes :
          Appended("log_analysis_result",
                   log_analysis_result(fs, now, description, d, io),
                   FormatTimeRange(now, PlusSeconds(now, d)), description,
                   AnalysisDict, io)

LogApiTrigger ==
    /\ lm = "ready"
    /\ appended < MaxAppends
    /\ \E now \in Instants, description \in TriggerDescriptions,
          io \in WriteOutcomes :
          Appended("log_api_trigger",
                   log_api_trigger(fs, now, description, io),
                   FormatTimeRange(now, PlusSeconds(now, 1)),
                   TriggerDescription(description), TriggerDict, io)

ReadRecentLogs ==
    /\ lm = "ready"
    /\ \E count \in Counts, io \in ReadOutcomes :
          last' = [NoCall EXCEPT !.op = "read_recent_logs", !.ok = TRUE, !.io = io,
                       !.count = count,
                       !.lines = read_recent_logs(fs, count, io),
                       !.before = Len(file)]
    /\ UNCHANGED <<parent, exists, file, lm, fresh, appended>>
    /\ UNCHANGED analyzerVars

GetLogStats ==
    /\ lm = "ready"
    /\ \E io \in ReadOutcomes :
          LET r == get_log_stats(fs, io)
          IN  last' = [NoCall EXCEPT !.op = "get_log_stats", !.ok = (r.kind # "error"),
                           !.io = io, !.total_entries = r.total_entries,
                           !.before = Len(file)]
    /\ UNCHANGED <<parent, exists, file, lm, fresh, appended>>
    /\ UNCHANGED analyzerVars

ClearLogs ==
    /\ lm = "ready"
    /\ \E now \in Instants, io \in WriteOutcomes :
          LET r == clear_logs(fs, now, io)
          IN  /\ exists' = r.fs.exists
              /\ file' = r.fs.file
              /\ last' = [NoCall EXCEPT !.op = "clear_logs", !.ok = r.ret, !.io = io,
                                        !.before = Len(file)]
              /\ Created(io)
    /\ UNCHANGED <<parent, lm>>
    /\ UNCHANGED analyzerVars

BackupLogs ==
    /\ lm = "ready"
    /\ \E backup_suffix \in BackupSuffixes, now \in Instants, io \in CopyOutcomes :
          LET r == backup_logs(fs, backup_suffix, now, io)
          IN  /\ exists' = r.fs.exists
              /\ file' = r.fs.file
              /\ last' = [NoCall EXCEPT !.op = "backup_logs", !.ok = (r.kind = "path"),
                                        !.io = io, !.path = r.path, !.lines = <<r.data>>,
                                        !.before = Len(file)]
    /\ UNCHANGED <<parent, lm, fresh, appended>>
    /\ UNCHANGED analyzerVars

Init == InitAnalyzerVars /\ InitLogVars

Next ==
    \/ Construct
    \/ AppendLog
    \/ LogAnalysisResult
    \/ LogApiTrigger
    \/ ReadRecentLogs
    \/ GetLogStats
    \/ ClearLogs
    \/ BackupLogs

Spec == Init /\ [][Next]_vars

\* the analyzer alone, beside a log manager that is never constructed
InitAnalyzer ==
    /\ InitAnalyzerVars
    /\ parent = "dir"
    /\ exists = FALSE
    /\ file = <<>>
    /\ lm = "none"
    /\ last = NoCall
    /\ fresh = FALSE
    /\ appended = 0

SpecAnalyzer == InitAnalyzer /\ [][NextAnalyzer]_vars

(***************************************************************************)
(* Properties.                                                             *)
(***************************************************************************)
IsPrefix(s, t) == Len(s) <= Len(t) /\ SubSeq(t, 1, Len(s)) = s

IsSuffix(s, t) == Len(s) <= Len(t) /\ SubSeq(t, Len(t) - Len(s) + 1, Len(t)) = s

\* s holds sub as a contiguous piece
Contains(s, sub) ==
    \E i \in 1..(Len(s) + 1) :
        i + Len(sub) - 1 <= Len(s) /\ SubSeq(s, i, i + Len(sub) - 1) = sub

Min(a, b) == IF a <= b THEN a ELSE b

\* the lines of raw that start with the marker
MarkerLines(raw) == SelectSeq(SplitLines(raw), LAMBDA l : StartsWith(l, Marker))

HasMarkerLine(raw) == MarkerLines(raw) # <<>>

\* the trimmed text after the marker of the last line that starts with it
LastMarkedText(raw) == Strip(Tail(MarkerLines(raw)[Len(MarkerLines(raw))]))

AnalyzeOps == {"analyze_with_bbox", "analyze_with_sam2"}

\* C1: for every raw output with at least one line starting with
\* "Description:", _extract_description returns the trimmed text after the
\* marker of the last such line.
C1_ExtractReturnsLastMarkedText ==
    (call.op = "_extract_description" /\ HasMarkerLine(call.raw))
        => result = Return(LastMarkedText(call.raw))

\* C6: when the process exits with code 0 and exactly one of stdout and
\* stderr holds a "Description:" line (with a non-empty description), analyze
\* returns the description of that line, whichever stream holds it and
\* whatever the other stream holds.
C6_AnalyzeReadsEitherStream ==
    (/\ call.op \in AnalyzeOps
     /\ call.proc.launched
     /\ call.proc.returncode = 0
     /\ HasMarkerLine(call.proc.stdout) # HasMarkerLine(call.proc.stderr))
        => LET carrier == IF HasMarkerLine(call.proc.stdout)
                          THEN call.proc.stdout ELSE call.proc.stderr
           IN  LastMarkedText(carrier) # <<>>
                   => result = Return(LastMarkedText(carrier))

\* C7: analyze never lets an error escape: whatever the external process
\* does, the call returns a description or None, and it returns None when
\* the process could not be launched or exited with a non-zero code.
C7_AnalyzeNeverRaises ==
    call.op \in AnalyzeOps
        => /\ result.kind \in {"return", "None"}
           /\ (~call.proc.launched \/ call.proc.returncode # 0) => result = None

\* C7 witness: a segmentation-mode call whose process exited non-zero with
\* text on stderr, answered with None
C7_Witness ==
    /\ call.op = "analyze_with_sam2"
    /\ call.proc.launched
    /\ call.proc.returncode # 0
    /\ call.proc.stderr # <<>>
    /\ result = None

AppendOps == {"append_log", "log_analysis_result", "log_api_trigger"}

ReadOnlyOps == {"read_recent_logs", "get_log_stats", "backup_logs"}

\* the non-blank, non-'#' lines of the log file, trimmed, in file order
Entries == StrippedLogLines(ReadLines(file))

\* C2: an append_log call that returns True, followed immediately by
\* read_recent_logs(1) (read without an I/O error), gives exactly one line,
\* which holds the formatted time range and the exact description of the call.
C2_AppendThenReadOne ==
    [][(/\ last.op = "append_log"
        /\ last.ok
        /\ last'.op = "read_recent_logs"
        /\ last'.count = 1
        /\ last'.io = "ok")
          => /\ Len(last'.lines) = 1
             /\ Contains(last'.lines[1], last.time_range)
             /\ Contains(last'.lines[1], last.description)]_vars

\* C3: get_log_stats on a log created header-only reports total_entries = 0,
\* and after N append_log calls that returned True it reports N.
C3_StatsCountAppends ==
    (last.op = "get_log_stats" /\ last.io = "ok" /\ exists /\ fresh)
        => last.total_entries = appended

\* C4: clear_logs tells the truth: when it returns True the file holds only
\* the header and a get_log_stats that follows at once reports no entry, and
\* when the file could not be re-written it returns False.
C4_ClearReportsTruthfully ==
    [][/\ (last'.op = "clear_logs" /\ last'.ok) => (exists' /\ IsHeader(file'))
       /\ (last'.op = "clear_logs" /\ last'.io # "ok") => ~last'.ok
       /\ (/\ last.op = "clear_logs"
           /\ last.ok
           /\ last'.op = "get_log_stats"
           /\ last'.io = "ok") => last'.total_entries = 0]_vars

\* C5: read_recent_logs(count), for every count from 0 up, returns the last
\* count entries in file order: min(count, number of entries) of them, a
\* suffix of the entry sequence.
C5_ReadReturnsLastCount ==
    (last.op = "read_recent_logs" /\ last.io = "ok" /\ exists)
        => /\ Len(last.lines) = Min(last.count, Len(Entries))
           /\ IsSuffix(last.lines, Entries)

\* C8: the log file is append-only except for clear_logs: every other call
\* leaves the content it found as a prefix of the content it leaves, never
\* removes the file, and read, stats and backup leave the file as it was.
C8_AppendOnlyExceptClear ==
    [][last'.op # "clear_logs"
          => /\ IsPrefix(file, file')
             /\ exists => exists'
             /\ last'.op \in ReadOnlyOps => (file' = file /\ exists' = exists)]_vars

\* C8 witness: an append that returned True on a file that already held an
\* entry after its header
C8_Witness ==
    /\ last.op \in AppendOps
    /\ last.ok
    /\ last.before > Len(Header(FirstInstant))
    /\ Len(file) > last.before

\* C9: constructing a LogManager never raises, whether the parent directory
\* is present, missing, or missing together with an ancestor (the directory
\* being creatable where its own parent exists), and whether or not the log
\* file can be created; a missing parent directory exists afterwards.
C9_ConstructNeverFails ==
    (last.op = "__init__" /\ last.dir \in {"dir", "missing", "orphan"} /\ last.mk = "ok")
        => /\ ~last.raised
           /\ parent = "dir"

\* the line C10 describes: the third field is there iff bbox_info was given
DocumentedLine(time_range, description, bbox_info) ==
    time_range \o <<Tab>> \o description
        \o (IF bbox_info # NoBboxInfo THEN <<Tab>> \o JsonDumps(bbox_info) ELSE <<>>)
        \o <<"\n">>

\* C10: an append_log call that returns True (its description on one line)
\* appends exactly the line time range, tab, description, then a tab and the
\* JSON text of bbox_info if and only if a bbox_info object was given.
C10_AppendedLineFormat ==
    (last.op = "append_log" /\ last.ok /\ IndexOf(last.description, LineBreak) = 0)
        => file = SubSeq(file, 1, last.before)
                     \o DocumentedLine(last.time_range, last.description, last.bbox_info)

\* a line that is blank (nothing but whitespace) or holds one of the four
\* noise patterns: frame loading, propagate in video, Loading checkpoint,
\* UserWarning
IsBlankOrNoise(l) ==
    \/ \A i \in 1..Len(l) : l[i] \in Whitespace
    \/ \E i \in 1..Len(l) :
          l[i] \in {"frame loading", "propagate in video",
                    "Loading checkpoint", "UserWarning"}

\* C11: for every raw output with no line starting with "Description:",
\* _extract_description returns the last line that is neither blank nor
\* noise, trimmed; when every line is blank or noise it returns the whole
\* raw output trimmed.
C11_ExtractFallback ==
    (call.op = "_extract_description" /\ ~HasMarkerLine(call.raw))
        => LET lines == SplitLines(call.raw)
               good == {i \in 1..Len(lines) : ~IsBlankOrNoise(lines[i])}
           IN  IF good # {}
               THEN \E i \in good :
                       /\ \A j \in good : j <= i
                       /\ result = Return(Strip(lines[i]))
               ELSE result = Return(Strip(call.raw))

\* C11 witness: no marker line, a padded text line followed by a noise line;
\* the text line is returned trimmed
C11_Witness ==
    /\ call.op = "_extract_description"
    /\ call.raw = <<" ", "a", "\n", "frame loading">>
    /\ result = Return(<<"a">>)

\* C11, second case reached: every line is noise or blank and the trimmed
\* raw output, still holding two lines, is returned
C11_AllNoiseReached ==
    /\ call.op = "_extract_description"
    /\ call.raw = <<"UserWarning", "\n", "Loading checkpoint", "\n">>
    /\ result = Return(<<"UserWarning", "\n", "Loading checkpoint">>)

====
